---- MODULE Spec2Model ----
(***************************************************************************)
(* Streaming session engine of the FlowAgent front end                     *)
(* (frontend/static/js/app-chat.js): the SSEClient connection lifecycle    *)
(* and the App handlers that drive it.                                     *)
(*                                                                         *)
(* JavaScript is single threaded: every handler (a user action, a          *)
(* transport callback of the EventSource, a timer callback) runs to        *)
(* completion, so each handler is one action.  Handlers are written as     *)
(* operators over a "world" record holding the objects' fields; an action  *)
(* applies the handler to the current world and stores the result.         *)
(***************************************************************************)
EXTENDS Integers, Sequences, FiniteSets, TLC

\* ---------------------------------------------------------------- bounds
\* number of EventSource objects created in one behaviour
MaxTransports == 3
\* number of retry timers pending at the same time
MaxTimers == 3
\* number of error steps shown within one operation that are counted
MaxErrorSteps == 2

\* ------------------------------------------------------ program constants
maxRetries == 3
Null == 0

\* the event vocabulary and the callback each event type is mapped to
eventTypeMap ==
    [start |-> "start",
     intent_analysis |-> "intentAnalysis",
     kb_evaluation |-> "kbEvaluation",
     user_confirmation_required |-> "userConfirmationRequired",
     planner_update |-> "plannerUpdate",
     search_result |-> "searchResult",
     verification_feedback |-> "verificationFeedback",
     retry_trigger |-> "retryTrigger",
     final_report |-> "finalReport",
     answer |-> "answer",
     error |-> "error",
     end |-> "end"]

EventTypes == DOMAIN eventTypeMap

\* The event types the server sends in the behaviours explored: one of each
\* class the connection lifecycle tells apart (a callback every callback set
\* has, one only handleSubmit and connectWorkflowStream have, one only
\* executeChatOperation has, and the two that change the lifecycle).
StreamTypes == {"start", "planner_update", "answer", "error", "end"}


\* callbacks of handleSubmit (new report)
handleSubmitCallbacks ==
    {"onOpen", "start", "intentAnalysis", "kbEvaluation",
     "userConfirmationRequired", "plannerUpdate", "searchResult",
     "verificationFeedback", "retryTrigger", "finalReport", "error", "end"}

\* callbacks of executeChatOperation (follow_up / modify / supplement)
executeChatOperationCallbacks ==
    {"onOpen", "start", "answer", "finalReport", "error", "end"}

\* callbacks of connectWorkflowStream (reconnect after a restored snapshot)
connectWorkflowStreamCallbacks ==
    {"onOpen", "start", "intentAnalysis", "kbEvaluation",
     "userConfirmationRequired", "plannerUpdate", "searchResult",
     "verificationFeedback", "retryTrigger", "finalReport", "error", "end"}

callbacksOf(cb) ==
    CASE cb = "generate" -> handleSubmitCallbacks
      [] cb = "chat" -> executeChatOperationCallbacks
      [] cb = "restore" -> connectWorkflowStreamCallbacks

VARIABLES
    sse,                    \* the SSEClient object
    es,                     \* every EventSource created so far, by creation order
    timers,                 \* pending retry timers (setTimeout of onerror), FIFO
    isProcessing,           \* App.isProcessing
    errorHandled,           \* App.errorHandled
    currentConversationId,  \* ConversationManager.currentConversationId
    pendingRestore,         \* timers of the snapshot restore path
    trace,                  \* what the last handler did, in order
    term,                   \* how the current operation ended: "no", "end", "abort"
    errorDelivered,         \* an error event reached the caller in this operation
    errorSteps,             \* times the failure was shown in this operation
    opened,                 \* the stream opened at least once in this operation
    reconnects,             \* connects made by retry timers in this operation
                            \* while its stream has never opened
    dropped,                \* an event of the newest EventSource was dropped
    conversations,          \* ConversationManager.conversations, in key order
    now,                    \* the clock read by Date.now() and new Date()
    deletedItem,            \* App.deletedItem: <<>> (null) or <<item>>
    undoToast,              \* the undo toast is shown
    undoTimeout,            \* the 5 s timer of showUndoToast is pending
    deleting,               \* confirmDelete calls waiting for the animation
    appended,               \* every message pushed by addMessage, with its session
    reports,                \* every report passed to updateReport, with its session
    deletedEntry,           \* the store entry the last confirmDelete captured
    used,                   \* how many sessions were created and deleted
    backend,                \* the requests sent to /api/conversations
    op,                     \* the store operation the last step made
    query,                  \* the query of the last handleSubmit
    workflowData,           \* App.workflowData
    hasUserConfirmed,       \* App.hasUserConfirmed
    userConfirmationResult, \* App.userConfirmationResult: <<>> (null) or <<b>>
    confirmationModal,      \* the confirmation modal is displayed
    confirmationResolve,    \* App.confirmationResolve: Null or a promise
    awaiting,               \* promises the suspended callbacks await
    posts,                  \* the requests posted to /api/confirm
    received,               \* the events dispatched since the last handleSubmit
    steps,                  \* the .workflow-step elements of the canvas
    queryInput,             \* the value of the query input
    currentTemplateId,      \* App.currentTemplateId
    selectedTemplate,       \* App.selectedTemplate: <<>> (undefined) or <<t>>
    selectedDocument,       \* App.selectedDocument: <<>> (undefined) or <<d>>
    sessionStore,           \* sessionStorage 'interruptedWorkflow': <<>> or <<text>>
    localStore,             \* localStorage 'interruptedWorkflow_backup'
    restoreTimers,          \* the snapshots of the pending notification timers
    reconnectTimers,        \* the snapshots of the pending reconnect timers
    checked,                \* what the last check read and did: <<>> or <<c>>
    resumed,                \* the arguments of every connectWorkflowStream
    snapUsed                \* how many saves, checks, reloads, storage writes

\* the fields of the connection lifecycle
lifeVars == <<sse, es, timers, isProcessing, errorHandled, pendingRestore,
              trace, term, errorDelivered, errorSteps, reconnects, opened,
              dropped>>

\* the fields of the conversation store and of the history delete flow
storeVars == <<conversations, now, deletedItem, undoToast, undoTimeout,
               deleting, appended, reports, deletedEntry, used, backend,
               op>>

\* the fields of the workflow and of the confirmation round trip
sessionVars == <<query, workflowData, hasUserConfirmed, userConfirmationResult,
                 confirmationModal, confirmationResolve, awaiting, posts,
                 received, steps, queryInput, currentTemplateId,
                 selectedTemplate, selectedDocument, sessionStore, localStore,
                 restoreTimers, reconnectTimers, checked, resumed, snapUsed>>

vars == <<sse, es, timers, isProcessing, errorHandled, currentConversationId,
          pendingRestore, trace, term, errorDelivered, errorSteps, reconnects,
          opened, dropped, conversations, now, deletedItem, undoToast,
          undoTimeout, deleting, appended, reports, deletedEntry, used,
          backend, op, query, workflowData, hasUserConfirmed, userConfirmationResult,
          confirmationModal, confirmationResolve, awaiting, posts, received,
          steps, queryInput, currentTemplateId, selectedTemplate,
          selectedDocument, sessionStore, localStore, restoreTimers,
          reconnectTimers, checked, resumed, snapUsed>>

\* ------------------------------------------------------------ the world
World ==
    [sse |-> sse, es |-> es, timers |-> timers, isProcessing |-> isProcessing,
     errorHandled |-> errorHandled, out |-> <<>>]

Ev(k, t, n) == [kind |-> k, es |-> t, name |-> n]

Emit(w, e) == [w EXCEPT !.out = Append(@, e)]

\* ------------------------------------------------------------ SSEClient
SSEClientInit ==
    [eventSource |-> Null, isConnected |-> FALSE, retryCount |-> 0,
     isAborted |-> FALSE, isCompleted |-> FALSE,
     \* errorHandled is not set by the constructor (undefined, falsy)
     errorHandled |-> FALSE]

\* disconnect that closes the EventSource but keeps the reference to it
disconnectKeepsReference(w) ==
    IF w.sse.eventSource # Null
    THEN Emit([w EXCEPT !.es[w.sse.eventSource].readyState = "closed",
                        !.es[w.sse.eventSource].closes = @ + 1,
                        !.sse.isConnected = FALSE],
              Ev("close", w.sse.eventSource, ""))
    ELSE w

\* disconnect that drops the reference without closing the EventSource
disconnectWithoutClose(w) ==
    IF w.sse.eventSource # Null
    THEN [w EXCEPT !.sse.eventSource = Null, !.sse.isConnected = FALSE]
    ELSE w

\* disconnect that also clears the abort and complete flags
disconnectResetsFlags(w) ==
    IF w.sse.eventSource # Null
    THEN Emit([w EXCEPT !.es[w.sse.eventSource].readyState = "closed",
                        !.es[w.sse.eventSource].closes = @ + 1,
                        !.sse.eventSource = Null,
                        !.sse.isConnected = FALSE,
                        !.sse.isAborted = FALSE,
                        !.sse.isCompleted = FALSE],
              Ev("close", w.sse.eventSource, ""))
    ELSE w

\* disconnect that also gives the retry budget back
disconnectClearsRetryCount(w) ==
    IF w.sse.eventSource # Null
    THEN Emit([w EXCEPT !.es[w.sse.eventSource].readyState = "closed",
                        !.es[w.sse.eventSource].closes = @ + 1,
                        !.sse.eventSource = Null,
                        !.sse.isConnected = FALSE,
                        !.sse.retryCount = 0],
              Ev("close", w.sse.eventSource, ""))
    ELSE w

disconnect(w) ==
    IF w.sse.eventSource # Null
    THEN Emit([w EXCEPT !.es[w.sse.eventSource].readyState = "closed",
                        !.es[w.sse.eventSource].closes = @ + 1,
                        !.sse.eventSource = Null,
                        !.sse.isConnected = FALSE],
              Ev("close", w.sse.eventSource, ""))
    ELSE w

abort(w) ==
    Emit(disconnect([w EXCEPT !.sse.isAborted = TRUE,
                              !.sse.isCompleted = TRUE,
                              !.sse.retryCount = maxRetries,
                              !.sse.errorHandled = TRUE]),
         Ev("abort", 0, ""))

\* connect that opens the new EventSource without tearing the old one down
connectWithoutTeardown(w, cb) ==
    LET w2 == [w EXCEPT !.sse.isAborted = FALSE,
                        !.sse.isCompleted = FALSE,
                        !.sse.retryCount = 0,
                        !.sse.errorHandled = FALSE]
        id == Len(w2.es) + 1
    IN  Emit([w2 EXCEPT !.es = Append(@, [readyState |-> "connecting",
                                          closes |-> 0,
                                          cb |-> cb]),
                        !.sse.eventSource = id],
             Ev("new", id, ""))

connect(w, cb) ==
    LET w1 == IF w.sse.eventSource # Null THEN abort(w) ELSE w
        w2 == [w1 EXCEPT !.sse.isAborted = FALSE,
                         !.sse.isCompleted = FALSE,
                         !.sse.retryCount = 0,
                         !.sse.errorHandled = FALSE]
        id == Len(w2.es) + 1
    IN  Emit([w2 EXCEPT !.es = Append(@, [readyState |-> "connecting",
                                          closes |-> 0,
                                          cb |-> cb]),
                        !.sse.eventSource = id],
             Ev("new", id, ""))

\* invoke callbacks[name] when the callback set defines it
hasCallback(w, i, name) == name \in callbacksOf(w.es[i].cb)

invoke(w, i, name) ==
    IF hasCallback(w, i, name) THEN Emit(w, Ev("cb", i, name)) ELSE w

\* eventSource.onopen of the EventSource i
onopen(w, i) ==
    invoke([w EXCEPT !.sse.isConnected = TRUE, !.sse.retryCount = 0],
           i, "onOpen")

\* eventSource.onerror of the EventSource i
onerror(w, i) ==
    LET w1 == [w EXCEPT !.sse.isConnected = FALSE]
    IN  IF w1.sse.isAborted THEN w1
        ELSE IF w1.sse.isCompleted THEN disconnect(w1)
        ELSE IF w1.sse.retryCount >= maxRetries
             THEN disconnect(invoke(w1, i, "onError"))
        ELSE Emit([w1 EXCEPT !.sse.retryCount = @ + 1,
                             !.timers = Append(@, w1.es[i].cb)],
                  Ev("setTimeout", i, ""))

\* ------------------------------------------------------- App callbacks
\* callbacks.error of handleSubmit and of connectWorkflowStream
errorCallback(w) ==
    IF w.sse.isAborted THEN w
    ELSE Emit(w, Ev("addErrorStep", 0, ""))

\* callbacks.error of executeChatOperation
chatErrorCallback(w) ==
    IF w.errorHandled THEN w
    ELSE LET w1 == Emit([w EXCEPT !.errorHandled = TRUE],
                        Ev("addErrorStep", 0, ""))
             w2 == abort(w1)
         IN  [w2 EXCEPT !.isProcessing = FALSE, !.sse.isCompleted = TRUE]

\* callbacks.end of the three callback sets
endCallback(w) ==
    [w EXCEPT !.isProcessing = FALSE, !.sse.isCompleted = TRUE]

\* the body of callbacks[name] of the EventSource i
callback(w, i, name) ==
    CASE name = "error" /\ w.es[i].cb = "chat" -> chatErrorCallback(w)
      [] name = "error" /\ w.es[i].cb # "chat" -> errorCallback(w)
      [] name = "end" -> endCallback(w)
      [] OTHER -> w

\* a listener that gives the connection up when a payload does not parse
listenerClosesOnParseError(w, i, ty, ok) ==
    IF ~ok
    THEN disconnect(Emit(w, Ev("parseError", i, ty)))
    ELSE LET w1 == Emit(w, Ev("event", i, ty))
         IN  IF hasCallback(w1, i, eventTypeMap[ty])
             THEN callback(invoke(w1, i, eventTypeMap[ty]), i, eventTypeMap[ty])
             ELSE Emit(w1, Ev("warn", i, ty))

\* the listener setupEventListeners registers for the event type ty, run
\* for one event of the EventSource i; ok says whether JSON.parse accepts
\* the payload
listener(w, i, ty, ok) ==
    IF ~ok
    THEN Emit(w, Ev("parseError", i, ty))
    ELSE LET w1 == Emit(w, Ev("event", i, ty))
         IN  IF hasCallback(w1, i, eventTypeMap[ty])
             THEN callback(invoke(w1, i, eventTypeMap[ty]), i, eventTypeMap[ty])
             ELSE Emit(w1, Ev("warn", i, ty))

\* ------------------------------------------------------- App operations
handleSubmit(w) ==
    connect([w EXCEPT !.isProcessing = TRUE], "generate")

executeChatOperation(w) ==
    connect([w EXCEPT !.isProcessing = TRUE], "chat")

reconnectToWorkflow(w) ==
    connect([w EXCEPT !.isProcessing = TRUE], "restore")

stopTask(w) ==
    [abort(w) EXCEPT !.isProcessing = FALSE]

\* ----------------------------------------------------------- helpers
Has(out, k) == \E j \in 1..Len(out) : out[j].kind = k
HasCb(out, n) == \E j \in 1..Len(out) : out[j].kind = "cb" /\ out[j].name = n
Count(out, k) == Cardinality({j \in 1..Len(out) : out[j].kind = k})

\* ------------------------------------------------ ConversationManager
\* The store is a JavaScript object: a map from id to entry that keeps the
\* order in which the keys were added.  It is a sequence of entries with
\* distinct ids.  An id 'conv_' + Date.now().toString(36) is written as the
\* clock value it encodes (the encoding is one to one); timestamps
\* (toISOString) are written as the clock value too.
maxMessages == 20
maxVersions == 5
maxTitle == 30

EntryFields ==
    {"id", "title", "createdAt", "updatedAt", "messages", "currentReport",
     "reportVersions"}

indexOf(convs, id) ==
    IF \E k \in 1..Len(convs) : convs[k].id = id
    THEN CHOOSE k \in 1..Len(convs) : convs[k].id = id
    ELSE 0

hasKey(convs, id) == indexOf(convs, id) # 0

\* conversations[id]
getConversation(convs, id) == convs[indexOf(convs, id)]

\* conversations[id] = entry: an existing key keeps its place
setKey(convs, id, entry) ==
    IF hasKey(convs, id)
    THEN [convs EXCEPT ![indexOf(convs, id)] = entry]
    ELSE Append(convs, entry)

\* delete conversations[id]
deleteKey(convs, id) ==
    LET keep(e) == e.id # id IN SelectSeq(convs, keep)

\* title.slice(0, 30) + (title.length > 30 ? '...' : '')
titleOf(title) ==
    IF Len(title) > maxTitle
    THEN SubSeq(title, 1, maxTitle) \o "..."
    ELSE title

\* slice(-n) of a sequence
lastN(q, n) == IF Len(q) > n THEN SubSeq(q, Len(q) - n + 1, Len(q)) ELSE q

createConversation(convs, title, t) ==
    setKey(convs, t,
           [id |-> t, title |-> titleOf(title), createdAt |-> t,
            updatedAt |-> t, messages |-> <<>>, currentReport |-> "",
            reportVersions |-> <<>>])

\* the message addMessage pushes at time t
stamped(message, t) ==
    [role |-> message.role, content |-> message.content,
     type |-> message.type, id |-> t, timestamp |-> t]

\* addMessage that keeps the first 20 messages
addMessageKeepsOldest(convs, id, message, t) ==
    IF hasKey(convs, id)
    THEN LET c == getConversation(convs, id)
             pushed == Append(c.messages, stamped(message, t))
         IN  setKey(convs, id,
                    [c EXCEPT !.messages =
                        IF Len(pushed) > maxMessages
                        THEN SubSeq(pushed, 1, maxMessages) ELSE pushed])
    ELSE convs

addMessage(convs, id, message, t) ==
    IF hasKey(convs, id)
    THEN LET c == getConversation(convs, id)
             pushed == Append(c.messages, stamped(message, t))
         IN  setKey(convs, id,
                    [c EXCEPT !.messages =
                        IF Len(pushed) > maxMessages
                        THEN lastN(pushed, maxMessages) ELSE pushed])
    ELSE convs

\* updateReport throws a TypeError (push on undefined) when the entry has a
\* current report and no reportVersions list
updateReportThrows(convs, id) ==
    /\ hasKey(convs, id)
    /\ getConversation(convs, id).currentReport # ""
    /\ "reportVersions" \notin DOMAIN getConversation(convs, id)

\* updateReport that caps the versions before it pushes the previous report
updateReportCapsFirst(convs, id, report, operationType, t) ==
    IF hasKey(convs, id) /\ ~updateReportThrows(convs, id)
    THEN LET c == getConversation(convs, id)
             capped == IF Len(c.reportVersions) > maxVersions
                       THEN lastN(c.reportVersions, maxVersions)
                       ELSE c.reportVersions
             c1 == IF c.currentReport # ""
                   THEN [c EXCEPT !.reportVersions =
                            Append(capped, [content |-> c.currentReport,
                                            timestamp |-> t,
                                            operation |-> operationType])]
                   ELSE c
         IN  setKey(convs, id, [c1 EXCEPT !.currentReport = report])
    ELSE convs

updateReport(convs, id, report, operationType, t) ==
    IF hasKey(convs, id) /\ ~updateReportThrows(convs, id)
    THEN LET c == getConversation(convs, id)
             pushed == Append(c.reportVersions,
                              [content |-> c.currentReport, timestamp |-> t,
                               operation |-> operationType])
             c1 == IF c.currentReport # ""
                   THEN [c EXCEPT !.reportVersions =
                            IF Len(pushed) > maxVersions
                            THEN lastN(pushed, maxVersions) ELSE pushed]
                   ELSE c
         IN  setKey(convs, id, [c1 EXCEPT !.currentReport = report])
    ELSE convs

deleteConversation(convs, id) == deleteKey(convs, id)

restoreConversation(convs, item) ==
    IF item.id # Null
    THEN setKey(convs, item.id,
                [id |-> item.id, title |-> item.query,
                 currentReport |-> item.report, updatedAt |-> item.timestamp,
                 messages |-> IF "messages" \in DOMAIN item
                              THEN item.messages ELSE <<>>])
    ELSE convs

\* new Date(b.updatedAt) - new Date(a.updatedAt) < 0: a sorts before b
newerFirst(a, b) == a.updatedAt > b.updatedAt

\* the comparator with its operands swapped
olderFirst(a, b) == a.updatedAt < b.updatedAt

\* Array.prototype.sort is stable: insertion into the sorted prefix, behind
\* every element the new one does not sort before
RECURSIVE insertSorted(_, _, _)
insertSorted(sorted, e, descending) ==
    IF sorted = <<>> THEN <<e>>
    ELSE IF (IF descending THEN newerFirst(e, sorted[Len(sorted)])
                           ELSE olderFirst(e, sorted[Len(sorted)]))
         THEN Append(insertSorted(SubSeq(sorted, 1, Len(sorted) - 1), e,
                                  descending),
                     sorted[Len(sorted)])
         ELSE Append(sorted, e)

RECURSIVE sortByUpdatedAt(_, _)
sortByUpdatedAt(q, descending) ==
    IF q = <<>> THEN <<>>
    ELSE insertSorted(sortByUpdatedAt(SubSeq(q, 1, Len(q) - 1), descending),
                      q[Len(q)], descending)

\* listConversations that sorts by update time ascending
listConversationsAscending(convs) == sortByUpdatedAt(convs, FALSE)

listConversations(convs) == sortByUpdatedAt(convs, TRUE)

\* App.getHistory
historyItem(c) ==
    [id |-> c.id, query |-> c.title, report |-> c.currentReport,
     timestamp |-> c.updatedAt,
     status |-> IF c.currentReport # "" THEN "completed" ELSE "failed"]

getHistory(convs) ==
    LET l == listConversations(convs)
    IN  [k \in 1..Len(l) |-> historyItem(l[k])]

\* the entries of a log that do not belong to the session id
dropLog(log, id) == LET keep(x) == x.conv # id IN SelectSeq(log, keep)

\* the entries of a log that belong to the session id, without the session
logOf(log, id) ==
    LET mine(x) == x.conv = id
        l == SelectSeq(log, mine)
    IN  [k \in 1..Len(l) |-> l[k].item]

StoreInit ==
    /\ conversations = <<>>
    /\ now = 1
    /\ deletedItem = <<>>
    /\ undoToast = FALSE
    /\ undoTimeout = FALSE
    /\ deleting = <<>>
    /\ appended = <<>>
    /\ reports = <<>>
    /\ deletedEntry = <<>>
    /\ used = [creates |-> 0, deletes |-> 0]
    /\ backend = <<>>
    /\ op = "init"

\* ------------------------------------------------------------ workflow
emptyWorkflow ==
    [planner |-> <<>>, searches |-> <<>>, verifications |-> <<>>,
     report |-> <<>>]

SessionInit ==
    /\ query = ""
    /\ workflowData = emptyWorkflow
    /\ hasUserConfirmed = FALSE
    /\ userConfirmationResult = <<>>
    /\ confirmationModal = FALSE
    /\ confirmationResolve = Null
    /\ awaiting = <<>>
    /\ posts = <<>>
    /\ received = <<>>
    /\ steps = <<>>
    /\ queryInput = ""
    /\ currentTemplateId = "general"
    /\ selectedTemplate = <<>>
    /\ selectedDocument = <<>>
    /\ sessionStore = <<>>
    /\ localStore = <<>>
    /\ restoreTimers = <<>>
    /\ reconnectTimers = <<>>
    /\ checked = <<>>
    /\ resumed = <<>>
    /\ snapUsed = [saves |-> 0, checks |-> 0, reloads |-> 0, writes |-> 0]

\* Store the world a handler returns and update the observations.  by is
\* who ran the handler: "user" (a new operation), "stop", "timer" (a retry
\* timer), "transport", "event" or "confirm".
Observe(w, by) ==
    /\ sse' = w.sse
    /\ es' = w.es
    /\ timers' = w.timers
    /\ isProcessing' = w.isProcessing
    /\ errorHandled' = w.errorHandled
    /\ trace' = w.out
    /\ term' = IF by = "user" THEN "no"
               ELSE IF by \in {"stop", "event"} /\ Has(w.out, "abort") THEN "abort"
               ELSE IF HasCb(w.out, "end") /\ term = "no" THEN "end"
               ELSE term
    /\ errorDelivered' = IF by = "user" THEN FALSE
                         ELSE errorDelivered \/ HasCb(w.out, "error")
    /\ errorSteps' = (IF by = "user" THEN 0 ELSE errorSteps)
                        + Count(w.out, "addErrorStep")
    /\ opened' = IF by = "user" THEN FALSE
                 ELSE opened \/ HasCb(w.out, "onOpen")
    /\ reconnects' = IF by = "user" \/ opened' THEN 0
                     ELSE IF by = "timer" THEN reconnects + 1
                     ELSE reconnects
    /\ dropped' = IF Has(w.out, "new") THEN FALSE
                  ELSE dropped \/ Has(w.out, "parseError")

\* a handler of the connection lifecycle: the store and the workflow stay
Step(w, by) ==
    /\ Observe(w, by)
    /\ UNCHANGED storeVars
    /\ UNCHANGED sessionVars

\* ------------------------------------------------------------- Init
Init ==
    /\ sse = SSEClientInit
    /\ es = <<>>
    /\ timers = <<>>
    /\ isProcessing = FALSE
    /\ errorHandled = FALSE
    \* restoreLastConversation: the most recent stored session, if any
    /\ currentConversationId \in {Null, 1}
    \* checkAndRestoreInterruptedWorkflow: a snapshot was found or not
    /\ pendingRestore \in {"none", "notify"}
    /\ trace = <<>>
    /\ term = "no"
    /\ errorDelivered = FALSE
    /\ errorSteps = 0
    /\ opened = FALSE
    /\ reconnects = 0
    /\ dropped = FALSE
    /\ StoreInit
    /\ SessionInit

\* ----------------------------------------------------------- actions
\* the user submits a new query; at most b EventSources are created
HandleSubmitB(b) ==
    /\ ~isProcessing
    /\ Len(es) < b
    /\ Step(handleSubmit(World), "user")
    /\ currentConversationId' = 1
    /\ UNCHANGED pendingRestore

HandleSubmit == HandleSubmitB(MaxTransports)

\* the user sends a follow_up, modify or supplement request
ExecuteChatOperation ==
    /\ currentConversationId # Null
    /\ Len(es) < MaxTransports
    /\ Step(executeChatOperation(World), "user")
    /\ UNCHANGED <<currentConversationId, pendingRestore>>

\* the user presses the stop button, shown while isProcessing
StopTask ==
    /\ isProcessing
    /\ Step(stopTask(World), "stop")
    /\ UNCHANGED <<currentConversationId, pendingRestore>>

\* the timer of showWorkflowRestoreNotification fires: restoreWorkflowState
\* of a snapshot with a conversation id and a query
RestoreWorkflowState ==
    /\ pendingRestore = "notify"
    /\ pendingRestore' = "reconnect"
    /\ currentConversationId' = 1
    /\ Step(World, "restore")

\* the timer of restoreWorkflowState fires
ReconnectToWorkflow ==
    /\ pendingRestore = "reconnect"
    /\ Len(es) < MaxTransports
    /\ pendingRestore' = "none"
    /\ Step(reconnectToWorkflow(World), "user")
    /\ UNCHANGED currentConversationId

\* the browser opens the stream of the EventSource i
TransportOpen(i) ==
    /\ es[i].readyState = "connecting"
    /\ Step(onopen([World EXCEPT !.es[i].readyState = "open"], i), "transport")
    /\ UNCHANGED <<currentConversationId, pendingRestore>>

\* the stream of the EventSource i fails; the browser either retries by
\* itself (readyState CONNECTING) or gives up (readyState CLOSED)
TransportError(i, fatal) ==
    /\ es[i].readyState \in {"connecting", "open"}
    /\ LET w == onerror([World EXCEPT !.es[i].readyState =
                           IF fatal THEN "closed" ELSE "connecting"], i)
       IN  /\ Len(w.timers) <= MaxTimers
           /\ Step(w, "transport")
    /\ UNCHANGED <<currentConversationId, pendingRestore>>

\* the oldest retry timer fires; at most b EventSources are created
RetryTimerB(b) ==
    /\ timers # <<>>
    /\ Len(es) < b
    /\ Step(connect([World EXCEPT !.timers = Tail(@)], Head(timers)), "timer")
    /\ UNCHANGED <<currentConversationId, pendingRestore>>

RetryTimer == RetryTimerB(MaxTransports)

\* a named event arrives on the open stream of the EventSource i
StreamEvent(i, ty, ok) ==
    /\ es[i].readyState = "open"
    /\ LET w == listener(World, i, ty, ok)
       IN  /\ errorSteps + Count(w.out, "addErrorStep") <= MaxErrorSteps
           /\ Step(w, "event")
    /\ UNCHANGED <<currentConversationId, pendingRestore>>

Next ==
    \/ HandleSubmit
    \/ ExecuteChatOperation
    \/ StopTask
    \/ RestoreWorkflowState
    \/ ReconnectToWorkflow
    \/ RetryTimer
    \/ \E i \in 1..Len(es) : TransportOpen(i)
    \/ \E i \in 1..Len(es), fatal \in BOOLEAN : TransportError(i, fatal)
    \/ \E i \in 1..Len(es), ty \in StreamTypes, ok \in BOOLEAN :
           StreamEvent(i, ty, ok)

Spec == Init /\ [][Next]_vars

\* The scenario of a stream that never opens: one query is submitted and
\* after that only transport errors and retry timers happen.
MaxAttempts == 6

NextErrors ==
    \/ HandleSubmitB(1)
    \/ RetryTimerB(MaxAttempts)
    \/ \E i \in 1..Len(es), fatal \in BOOLEAN : TransportError(i, fatal)

SpecErrors == Init /\ [][NextErrors]_vars

\* ------------------------------------------- conversation store actions
\* The methods of ConversationManager and the history delete flow of App,
\* applied to the store with inputs drawn from small sets.
MaxAppends == 22
MaxUpdates == 7
MaxClock == 2

Titles == {"weekly report", "a title that is longer than thirty characters"}

\* the session ids of the store
Keys(convs) == {convs[k].id : k \in 1..Len(convs)}

\* the store starts empty, no session is selected, no snapshot is found
InitStore ==
    /\ Init
    /\ currentConversationId = Null
    /\ pendingRestore = "none"

\* a millisecond passes; the clock stays below b
TickB(b) ==
    /\ now < b
    /\ now' = now + 1
    /\ op' = "tick"
    /\ UNCHANGED sessionVars
    /\ UNCHANGED <<lifeVars, backend, currentConversationId, conversations,
                   deletedItem, undoToast, undoTimeout, deleting, appended,
                   reports, deletedEntry, used>>

\* createConversation(title); at most b sessions are created
CreateConversationB(title, b) ==
    /\ used.creates < b
    /\ conversations' = createConversation(conversations, title, now)
    /\ appended' = dropLog(appended, now)
    /\ reports' = dropLog(reports, now)
    /\ used' = [used EXCEPT !.creates = @ + 1]
    /\ op' = "createConversation"
    /\ UNCHANGED sessionVars
    /\ UNCHANGED <<lifeVars, backend, currentConversationId, now, deletedItem,
                   undoToast, undoTimeout, deleting, deletedEntry>>

\* addMessage(id, {role, content, type}); the content is the number of the
\* message in the session; at most b messages are appended to a session
AddMessageB(id, b) ==
    /\ hasKey(conversations, id)
    /\ Len(logOf(appended, id)) < b
    /\ LET message == [role |-> "user", type |-> "text",
                       content |-> Len(logOf(appended, id)) + 1]
       IN  /\ conversations' = addMessage(conversations, id, message, now)
           /\ appended' = Append(appended, [conv |-> id,
                                            item |-> stamped(message, now)])
    /\ op' = "addMessage"
    /\ UNCHANGED sessionVars
    /\ UNCHANGED <<lifeVars, backend, currentConversationId, now, deletedItem,
                   undoToast, undoTimeout, deleting, reports, deletedEntry, used>>

\* the n-th report of a session, a non-empty string
reportText(n) == "report " \o ToString(n)

\* updateReport(id, report, 'generate'); at most b updates of a session
UpdateReportB(id, b) ==
    /\ hasKey(conversations, id)
    /\ Len(logOf(reports, id)) < b
    /\ LET report == reportText(Len(logOf(reports, id)) + 1)
       IN  IF updateReportThrows(conversations, id)
           THEN /\ op' = "updateReportThrew"
                /\ UNCHANGED <<conversations, reports>>
           ELSE /\ conversations' =
                       updateReport(conversations, id, report, "generate", now)
                /\ reports' = Append(reports, [conv |-> id, item |-> report])
                /\ op' = "updateReport"
    /\ UNCHANGED sessionVars
    /\ UNCHANGED <<lifeVars, backend, currentConversationId, now, deletedItem,
                   undoToast, undoTimeout, deleting, appended, deletedEntry,
                   used>>


\* syncDeleteToBackend(this.deletedItem); on null the read of
\* item.conversation_id throws and confirmDelete catches it
syncDeleteToBackend(requests, item) ==
    IF item # <<>> /\ "conversation_id" \in DOMAIN item[1]
    THEN Append(requests, [method |-> "DELETE", id |-> item[1].conversation_id])
    ELSE requests

\* syncUndoToBackend(this.deletedItem)
syncUndoToBackend(requests, item) ==
    IF item # <<>> /\ "conversation_id" \in DOMAIN item[1]
    THEN Append(requests, [method |-> "POST", id |-> item[1].conversation_id])
    ELSE requests

\* showDeleteConfirm(id) and confirmDelete up to its await of the animation;
\* the user does not delete again an item that is being animated away
ConfirmDeleteB(id, b) ==
    /\ hasKey(conversations, id)
    /\ used.deletes < b
    /\ \A k \in 1..Len(deleting) : deleting[k] # id
    /\ used' = [used EXCEPT !.deletes = @ + 1]
    /\ LET history == getHistory(conversations)
           index == CHOOSE k \in 1..Len(history) : history[k].id = id
       IN  deletedItem' = <<history[index]>>
    /\ deletedEntry' = <<getConversation(conversations, id)>>
    /\ deleting' = Append(deleting, id)
    /\ op' = "confirmDelete"
    /\ UNCHANGED sessionVars
    /\ UNCHANGED <<lifeVars, backend, currentConversationId, conversations, now,
                   undoToast, undoTimeout, appended, reports>>

\* confirmDelete after the 600 ms of the animation: deleteConversation,
\* syncDeleteToBackend (no request: a history item has no conversation_id),
\* showUndoToast
ConfirmDeleteResume ==
    /\ deleting # <<>>
    /\ conversations' = deleteConversation(conversations, Head(deleting))
    /\ deleting' = Tail(deleting)
    /\ appended' = dropLog(appended, Head(deleting))
    /\ reports' = dropLog(reports, Head(deleting))
    /\ backend' = syncDeleteToBackend(backend, deletedItem)
    /\ undoToast' = TRUE
    /\ undoTimeout' = TRUE
    /\ op' = "deleted"
    /\ UNCHANGED sessionVars
    /\ UNCHANGED <<lifeVars, currentConversationId, now, deletedItem,
                   deletedEntry, used>>

\* the user clicks the undo button of the toast
UndoDelete ==
    /\ undoToast
    /\ IF deletedItem = <<>>
       THEN /\ op' = "undoNothing"
            /\ UNCHANGED conversations
       ELSE /\ conversations' =
                   restoreConversation(conversations, deletedItem[1])
            /\ op' = "undoDelete"
    /\ backend' = syncUndoToBackend(backend, deletedItem)
    /\ undoToast' = FALSE
    /\ deletedItem' = <<>>
    /\ deletedEntry' = <<>>
    /\ UNCHANGED sessionVars
    /\ UNCHANGED <<lifeVars, currentConversationId, now, undoTimeout,
                   deleting, appended, reports, used>>

\* the 5 s timer of showUndoToast fires
UndoExpire ==
    /\ undoTimeout
    /\ undoTimeout' = FALSE
    /\ undoToast' = FALSE
    /\ deletedItem' = <<>>
    /\ deletedEntry' = <<>>
    /\ op' = "undoExpired"
    /\ UNCHANGED sessionVars
    /\ UNCHANGED <<lifeVars, backend, currentConversationId, conversations, now,
                   deleting, appended, reports, used>>

\* One session, many messages and reports.
NextHistory ==
    \/ TickB(MaxClock)
    \/ \E title \in Titles : CreateConversationB(title, 1)
    \/ \E id \in Keys(conversations) : AddMessageB(id, MaxAppends)
    \/ \E id \in Keys(conversations) : UpdateReportB(id, MaxUpdates)

SpecHistory == InitStore /\ [][NextHistory]_vars

\* Many sessions: one is created per millisecond. The legacy addToHistory
\* kept at most maxHistory items; createConversation has no such test.
maxHistory == 20
MaxSessions == 21
MaxGrowthClock == MaxSessions + 1

\* the clock moves on once a session carries the current timestamp
GrowthTick ==
    /\ hasKey(conversations, now)
    /\ TickB(MaxGrowthClock)

NextGrowth ==
    \/ GrowthTick
    \/ CreateConversationB("weekly report", MaxSessions)

SpecGrowth == InitStore /\ [][NextGrowth]_vars

\* ------------------------------------------- the generate operation
\* The callbacks of handleSubmit work on the App and its ConversationManager;
\* they are operators over a record of those fields.
App ==
    [conversations |-> conversations, current |-> currentConversationId,
     workflowData |-> workflowData, hasUserConfirmed |-> hasUserConfirmed,
     userConfirmationResult |-> userConfirmationResult,
     confirmationModal |-> confirmationModal,
     confirmationResolve |-> confirmationResolve, awaiting |-> awaiting,
     posts |-> posts, steps |-> steps]

\* getCurrentConversation() is not null or undefined
hasCurrentConversation(a) ==
    a.current # Null /\ hasKey(a.conversations, a.current)

\* workflowNodes.innerHTML = '' together with the reset of the workflow
clearWorkflow(a) ==
    [a EXCEPT !.workflowData = emptyWorkflow,
              !.hasUserConfirmed = FALSE,
              !.userConfirmationResult = <<>>,
              !.steps = <<>>]

\* addWorkflowStep: the element keeps the icon, the title, the content and
\* the class of its number; the type argument is only logged
addWorkflowStep(a, type, icon, title, content, nodeType) ==
    [a EXCEPT !.steps = Append(@, [icon |-> icon, title |-> title,
                                   content |-> content,
                                   nodeType |-> nodeType])]

\* the text of ${x} in a template literal for a field that may be missing
fieldText(data, f) ==
    IF f \in DOMAIN data THEN ToString(data[f]) ELSE "undefined"

\* titles: '任务规划', '阶段切换', '信息检索', '质量校验', '报告生成完成',
\* '重新规划', '等待确认'
addPlannerStep(a, data) ==
    addWorkflowStep(a, "planner", "clipboard", "planning",
                    "plan of " \o ToString(Len(data.plan.items)) \o " steps",
                    "planner")

addTransitionStep(a, fromStage, toStage) ==
    addWorkflowStep(a, "transition", "arrow", "stage switch",
                    "from " \o fromStage \o " to " \o toStage, "transition")

addSearchStep(a, data) ==
    addWorkflowStep(a, "search", "magnifier", "retrieval",
                    "search: " \o data.query, "executor")

addVerificationStep(a, data) ==
    addWorkflowStep(a, "verification",
                    IF "is_valid" \in DOMAIN data /\ data.is_valid
                    THEN "check" ELSE "warning",
                    "verification",
                    IF "reason" \in DOMAIN data THEN data.reason
                    ELSE "undefined",
                    "executor")

addReportStep(a, data) ==
    addWorkflowStep(a, "report", "page", "report ready",
                    "the structured report is ready", "reporter")

\* the content is `第 ${data.retry_count} 次重试`
addRetryStep(a, data) ==
    addWorkflowStep(a, "retry", "cycle", "replanning",
                    "retry " \o fieldText(data, "retry_count"), "planner")

\* callbacks.retryTrigger of handleSubmit
retryTrigger(a, data) == addRetryStep(a, data)

\* a re-key that leaves the entry of the client id in the store
rekeyKeepsOldEntry(convs, old, new) ==
    setKey(convs, new, [getConversation(convs, old) EXCEPT !.id = new])

\* delete conversations[old]; conv.id = new; conversations[new] = conv
rekey(convs, old, new) ==
    setKey(deleteKey(convs, old), new,
           [getConversation(convs, old) EXCEPT !.id = new])

\* callbacks.start of handleSubmit
startCallback(a, data) ==
    IF /\ "conversation_id" \in DOMAIN data
       /\ data.conversation_id # Null
       /\ hasCurrentConversation(a)
       /\ a.current # data.conversation_id
    THEN [a EXCEPT !.conversations = rekey(@, a.current, data.conversation_id),
                   !.current = data.conversation_id]
    ELSE a

\* showConfirmationModal: the promise p is created, its resolve function
\* takes the one slot
showConfirmationModal(a, p) ==
    [a EXCEPT !.confirmationModal = TRUE, !.confirmationResolve = p]

\* callbacks.userConfirmationRequired of handleSubmit, to its await of p
userConfirmationRequired(a, p) ==
    [showConfirmationModal(
         addWorkflowStep(a, "confirm", "question", "awaiting confirmation",
                         "confirm whether to search", "confirm"), p)
        EXCEPT !.awaiting = Append(@, p)]

\* POST /api/confirm when there is a current conversation
postConfirm(a, confirmed) ==
    IF hasCurrentConversation(a)
    THEN [a EXCEPT !.posts = Append(@, [confirmed |-> confirmed,
                                        conversation_id |-> a.current])]
    ELSE a

\* callbacks.userConfirmationRequired after its await: the promise p was
\* resolved with confirmed
userConfirmationResume(a, p, confirmed) ==
    LET isOther(x) == x # p
    IN  postConfirm([a EXCEPT !.awaiting = SelectSeq(@, isOther),
                              !.hasUserConfirmed = TRUE,
                              !.userConfirmationResult = <<confirmed>>],
                    confirmed)

\* handleConfirmation that forwards a decision only when the user consents
handleConfirmationConsentOnly(a, confirmed) ==
    LET p == a.confirmationResolve
        a1 == [a EXCEPT !.confirmationModal = FALSE,
                        !.confirmationResolve = Null]
        a2 == IF confirmed THEN postConfirm(a1, confirmed) ELSE a1
    IN  IF p # Null /\ confirmed
        THEN userConfirmationResume(a2, p, confirmed)
        ELSE a2

\* handleConfirmation: resolves the promise in the slot, posts the decision;
\* the callback that awaited the promise resumes in the same task, after
\* handleConfirmation reached its own await
handleConfirmation(a, confirmed) ==
    LET p == a.confirmationResolve
        a1 == [a EXCEPT !.confirmationModal = FALSE,
                        !.confirmationResolve = Null]
        a2 == postConfirm(a1, confirmed)
    IN  IF p # Null
        THEN userConfirmationResume(a2, p, confirmed)
        ELSE a2

\* a plan is a JavaScript value: an array of items or a string
isArray(v) == v.isArray

\* an array is truthy even when empty, a string when it is not empty
truthy(v) == v.isArray \/ v.text # ""

\* callbacks.plannerUpdate of handleSubmit
plannerUpdate(a, data) ==
    LET a1 == [a EXCEPT !.workflowData.planner = <<data>>]
    IN  IF "plan" \in DOMAIN data /\ truthy(data.plan) /\ isArray(data.plan)
        THEN addTransitionStep(addPlannerStep(a1, data), "planner", "executor")
        ELSE a1

\* callbacks.searchResult of handleSubmit
searchResult(a, data) ==
    LET a1 == [a EXCEPT !.workflowData.searches = Append(@, data)]
    IN  IF "query" \in DOMAIN data /\ data.query # ""
        THEN addSearchStep(a1, data)
        ELSE a1

\* callbacks.verificationFeedback of handleSubmit
verificationFeedback(a, data) ==
    addTransitionStep(
        addVerificationStep(
            [a EXCEPT !.workflowData.verifications = Append(@, data)], data),
        "verifier", "reporter")

\* a finalReport callback that shows the report and does not store it
finalReportWithoutCommit(a, data, t) ==
    IF "content" \in DOMAIN data /\ data.content # ""
    THEN addReportStep(
             clearWorkflow([a EXCEPT !.workflowData.report = <<data.content>>]),
             data)
    ELSE a

\* callbacks.finalReport of handleSubmit at time t; a TypeError of
\* updateReport ends the callback (the listener catches it)
finalReport(a, data, t) ==
    IF "content" \in DOMAIN data /\ data.content # ""
    THEN LET a1 == addReportStep(
                       clearWorkflow(
                           [a EXCEPT !.workflowData.report =
                                         <<data.content>>]),
                       data)
         IN  IF a1.current # Null
                   /\ ~updateReportThrows(a1.conversations, a1.current)
             THEN [a1 EXCEPT !.conversations =
                      addMessage(
                          updateReport(@, a1.current, data.content,
                                       "generate", t),
                          a1.current,
                          [role |-> "assistant", content |-> data.content,
                           type |-> "report"],
                          t)]
             ELSE a1
    ELSE a

\* the callback of handleSubmit for the event ev; p names the promise a
\* confirmation request creates
generateCallback(a, ev, p, t) ==
    CASE ev.type = "start" -> startCallback(a, ev)
      [] ev.type = "user_confirmation_required" -> userConfirmationRequired(a, p)
      [] ev.type = "planner_update" -> plannerUpdate(a, ev)
      [] ev.type = "search_result" -> searchResult(a, ev)
      [] ev.type = "verification_feedback" -> verificationFeedback(a, ev)
      [] ev.type = "retry_trigger" -> retryTrigger(a, ev)
      [] ev.type = "final_report" -> finalReport(a, ev, t)
      [] OTHER -> a

StoreApp(a) ==
    /\ conversations' = a.conversations
    /\ currentConversationId' = a.current
    /\ workflowData' = a.workflowData
    /\ hasUserConfirmed' = a.hasUserConfirmed
    /\ userConfirmationResult' = a.userConfirmationResult
    /\ confirmationModal' = a.confirmationModal
    /\ confirmationResolve' = a.confirmationResolve
    /\ awaiting' = a.awaiting
    /\ posts' = a.posts
    /\ steps' = a.steps

\* App.deleteConversation(id) of the session list, the user confirms; the
\* canvas is cleared when the session is the current one, the current id
\* stays; at most b sessions are deleted
DeleteConversationB(id, b) ==
    /\ hasKey(conversations, id)
    /\ used.deletes < b
    /\ LET a == [App EXCEPT !.conversations = deleteConversation(@, id)]
       IN  StoreApp(IF a.current = id THEN clearWorkflow(a) ELSE a)
    /\ appended' = dropLog(appended, id)
    /\ reports' = dropLog(reports, id)
    /\ used' = [used EXCEPT !.deletes = @ + 1]
    /\ op' = "deleteConversation"
    /\ UNCHANGED <<lifeVars, backend, now, deletedItem, undoToast,
                   undoTimeout, deleting, deletedEntry, query, received,
                   queryInput, currentTemplateId, selectedTemplate,
                   selectedDocument, sessionStore, localStore, restoreTimers,
                   reconnectTimers, checked, resumed, snapUsed>>

\* Several sessions, few messages and reports each, with the history delete
\* and undo flow.  A session id is a clock value, so the clock bounds the
\* number of sessions.
MaxStoreOps == 2
MaxCreates == 2
MaxDeletes == 1

NextStore ==
    \/ TickB(MaxClock)
    \/ CreateConversationB("weekly report", MaxCreates)
    \/ \E id \in Keys(conversations) : AddMessageB(id, MaxStoreOps)
    \/ \E id \in Keys(conversations) : UpdateReportB(id, MaxStoreOps)
    \/ \E id \in Keys(conversations) : DeleteConversationB(id, MaxDeletes)
    \/ \E id \in Keys(conversations) : ConfirmDeleteB(id, MaxDeletes)
    \/ ConfirmDeleteResume
    \/ UndoDelete
    \/ UndoExpire

SpecStore == InitStore /\ [][NextStore]_vars

\* what a step of the generate operation leaves alone
idleVars ==
    <<pendingRestore, now, deletedItem, undoToast, undoTimeout, deleting,
      appended, reports, deletedEntry, used, backend, op, currentTemplateId,
      selectedTemplate, selectedDocument, sessionStore, localStore,
      restoreTimers, reconnectTimers, checked, resumed, snapUsed>>

\* the user submits the query q; at most b EventSources are created
SubmitB(q, b) ==
    /\ ~isProcessing
    /\ Len(es) < b
    /\ Observe(handleSubmit(World), "user")
    /\ StoreApp(clearWorkflow(
           [App EXCEPT !.conversations = createConversation(@, q, now),
                       !.current = now]))
    /\ query' = q
    /\ queryInput' = ""
    /\ received' = <<>>
    /\ UNCHANGED idleVars

\* the event ev arrives on the open stream of the EventSource i and parses;
\* at most b events are dispatched in an operation
StreamDataB(i, ev, b) ==
    /\ es[i].readyState = "open"
    /\ Len(received) < b
    /\ LET w == listener(World, i, ev.type, TRUE)
       IN  /\ Observe(w, "event")
           /\ IF es[i].cb = "generate" /\ HasCb(w.out, eventTypeMap[ev.type])
              THEN StoreApp(generateCallback(App, ev, Len(received) + 1, now))
              ELSE StoreApp(App)
    /\ received' = Append(received, ev)
    /\ UNCHANGED <<query, queryInput, idleVars>>

\* the user answers the confirmation modal
HandleConfirmation(confirmed) ==
    /\ confirmationModal
    /\ Observe(Emit(World, Ev("handleConfirmation", 0,
                              IF confirmed THEN "true" ELSE "false")),
               "confirm")
    /\ StoreApp(handleConfirmation(App, confirmed))
    /\ UNCHANGED <<query, queryInput, received, idleVars>>

\* The scenario of one generate operation without confirmation.
MaxScenarioEvents == 6

plannerUpdateEvent ==
    [type |-> "planner_update",
     plan |-> [isArray |-> TRUE, items |-> <<"a", "b", "c">>]]
searchResultEvent == [type |-> "search_result", query |-> "q"]
verificationFeedbackEvent == [type |-> "verification_feedback", is_valid |-> TRUE]
finalReportEvent == [type |-> "final_report", content |-> "# Report"]
endEvent == [type |-> "end"]

ScenarioEvents ==
    {plannerUpdateEvent, searchResultEvent, verificationFeedbackEvent,
     finalReportEvent, endEvent}

NextScenario ==
    \/ \E q \in Titles : SubmitB(q, 1)
    \/ \E i \in 1..Len(es) : TransportOpen(i)
    \/ \E i \in 1..Len(es), ev \in ScenarioEvents :
           StreamDataB(i, ev, MaxScenarioEvents)

SpecScenario == InitStore /\ [][NextScenario]_vars

\* One generate operation whose stream carries planner updates of every shape
\* and retry triggers.
MaxStepEvents == 3
MaxRetryCount == 2

emptyPlanEvent ==
    [type |-> "planner_update", plan |-> [isArray |-> TRUE, items |-> <<>>]]
textPlanEvent ==
    [type |-> "planner_update", plan |-> [isArray |-> FALSE, text |-> "a, b"]]
noPlanEvent == [type |-> "planner_update"]
retryTriggerEvent(n) == [type |-> "retry_trigger", retry_count |-> n]

noQuerySearchEvent == [type |-> "search_result", results |-> <<>>]
emptyQuerySearchEvent == [type |-> "search_result", query |-> ""]

StepEvents ==
    {plannerUpdateEvent, emptyPlanEvent, textPlanEvent, noPlanEvent,
     searchResultEvent, noQuerySearchEvent, emptyQuerySearchEvent}
        \cup {retryTriggerEvent(n) : n \in 1..MaxRetryCount}

NextSteps ==
    \/ SubmitB("weekly report", 1)
    \/ \E i \in 1..Len(es) : TransportOpen(i)
    \/ \E i \in 1..Len(es), ev \in StepEvents :
           StreamDataB(i, ev, MaxStepEvents)

SpecSteps == InitStore /\ [][NextSteps]_vars

\* One generate operation with the confirmation round trip and a server
\* that names the conversation.
MaxSessionEvents == 4
ServerId == 101

startEvent == [type |-> "start", conversation_id |-> ServerId]
confirmationEvent == [type |-> "user_confirmation_required"]

SessionEvents ==
    {startEvent, confirmationEvent, plannerUpdateEvent, finalReportEvent,
     endEvent}

NextSession ==
    \/ SubmitB("weekly report", 1)
    \/ \E i \in 1..Len(es) : TransportOpen(i)
    \/ \E i \in 1..Len(es), ev \in SessionEvents :
           StreamDataB(i, ev, MaxSessionEvents)
    \/ \E confirmed \in BOOLEAN : HandleConfirmation(confirmed)

SpecSession == InitStore /\ [][NextSession]_vars

\* ------------------------------------------- the workflow snapshot
\* saveWorkflowState, checkAndRestoreInterruptedWorkflow and
\* restoreWorkflowState work on the page: the App, its canvas and the two
\* storage areas.  A stored text is [parses |-> TRUE, value |-> object] when
\* JSON.parse returns the object, and [parses |-> FALSE] when it throws.
Page ==
    [queryInput |-> queryInput, selectedTemplate |-> selectedTemplate,
     selectedDocument |-> selectedDocument, workflowData |-> workflowData,
     isProcessing |-> isProcessing, current |-> currentConversationId,
     steps |-> steps, sessionStore |-> sessionStore,
     localStore |-> localStore, restoreTimers |-> restoreTimers,
     reconnectTimers |-> reconnectTimers, checked |-> checked]

\* the object saveWorkflowState pushes for a step element, as JSON keeps it:
\* the element has no data-type and no data-stage attribute, so type and
\* stage are undefined and JSON.stringify leaves them out; it has no
\* .step-description child, so the description is ''
savedStep(el) == [icon |-> el.icon, title |-> el.title, description |-> ""]

workflowSteps(q) == [k \in 1..Len(q) |-> savedStep(q[k])]

\* JSON.stringify(state): null stays, the fields are all defined
stringify(state) == [parses |-> TRUE, value |-> state]

\* the state object of saveWorkflowState at time t
snapshotOf(p, t) ==
    [queryInput |-> p.queryInput,
     selectedTemplate |-> p.selectedTemplate,
     selectedDocument |-> p.selectedDocument,
     workflowData |-> p.workflowData,
     isProcessing |-> p.isProcessing,
     conversationId |-> p.current,
     operationType |-> "generate",
     workflowSteps |-> workflowSteps(p.steps),
     timestamp |-> t]

\* saveWorkflowState that writes the per-tab store only
saveWorkflowStateSessionOnly(p, t) ==
    IF ~p.isProcessing /\ p.queryInput = ""
    THEN p
    ELSE [p EXCEPT !.sessionStore = <<stringify(snapshotOf(p, t))>>]

saveWorkflowState(p, t) ==
    IF ~p.isProcessing /\ p.queryInput = ""
    THEN p
    ELSE LET stateJson == stringify(snapshotOf(p, t))
         IN  [p EXCEPT !.sessionStore = <<stateJson>>,
                       !.localStore = <<stateJson>>]

clearWorkflowStorage(p) ==
    [p EXCEPT !.sessionStore = <<>>, !.localStore = <<>>]

\* workflowState.queryInput is truthy
hasQueryInput(state) ==
    "queryInput" \in DOMAIN state /\ state.queryInput # ""

\* workflowState.isProcessing is truthy
hasIsProcessing(state) ==
    "isProcessing" \in DOMAIN state /\ state.isProcessing

\* state.conversationId is truthy
hasConversationId(state) ==
    "conversationId" \in DOMAIN state /\ state.conversationId # Null

\* what checkAndRestoreInterruptedWorkflow reads: the per-tab store, or the
\* per-origin backup when the per-tab store gives nothing
readSnapshot(p) ==
    IF p.sessionStore # <<>>
    THEN [source |-> "sessionStorage", text |-> p.sessionStore]
    ELSE [source |-> "localStorage", text |-> p.localStore]

\* a check that keeps the stores when the payload is not usable
checkKeepsUnusable(p) ==
    LET r == readSnapshot(p)
    IN  IF r.text = <<>>
        THEN [p EXCEPT !.checked = <<[source |-> r.source, did |-> "none"]>>]
        ELSE IF ~r.text[1].parses
        THEN [p EXCEPT !.checked = <<[source |-> r.source, did |-> "threw"]>>]
        ELSE IF /\ ~hasQueryInput(r.text[1].value)
                /\ ~hasIsProcessing(r.text[1].value)
        THEN [p EXCEPT !.checked = <<[source |-> r.source, did |-> "invalid"]>>]
        ELSE [p EXCEPT !.restoreTimers = Append(@, r.text[1].value),
                       !.checked = <<[source |-> r.source, did |-> "notified"]>>]

\* checkAndRestoreInterruptedWorkflow; showWorkflowRestoreNotification arms
\* the 2 s timer that restores the parsed state
checkAndRestoreInterruptedWorkflow(p) ==
    LET r == readSnapshot(p)
    IN  IF r.text = <<>>
        THEN [p EXCEPT !.checked = <<[source |-> r.source, did |-> "none"]>>]
        ELSE IF ~r.text[1].parses
        THEN [clearWorkflowStorage(p) EXCEPT
                 !.checked = <<[source |-> r.source, did |-> "threw"]>>]
        ELSE IF /\ ~hasQueryInput(r.text[1].value)
                /\ ~hasIsProcessing(r.text[1].value)
        THEN [clearWorkflowStorage(p) EXCEPT
                 !.checked = <<[source |-> r.source, did |-> "invalid"]>>]
        ELSE [p EXCEPT !.restoreTimers = Append(@, r.text[1].value),
                       !.checked = <<[source |-> r.source, did |-> "notified"]>>]

\* the element restoreWorkflowDisplay adds for a saved step:
\* addWorkflowStep(step.type, step.icon, step.title,
\*                 step.description || step.content || '', step.stage)
restoredStep(step) ==
    [icon |-> step.icon, title |-> step.title,
     content |-> IF "description" \in DOMAIN step /\ step.description # ""
                 THEN step.description
                 ELSE IF "content" \in DOMAIN step /\ step.content # ""
                 THEN step.content
                 ELSE "",
     nodeType |-> IF "stage" \in DOMAIN step THEN step.stage
                  ELSE "undefined"]

\* the report step addReportStep adds
reportStep ==
    [icon |-> "page", title |-> "report ready",
     content |-> "the structured report is ready", nodeType |-> "reporter"]

\* restoreWorkflowDisplay: the canvas is emptied and filled from the state
restoreWorkflowDisplay(p, state) ==
    LET shown == IF "workflowSteps" \in DOMAIN state
                 THEN [k \in 1..Len(state.workflowSteps) |->
                          restoredStep(state.workflowSteps[k])]
                 ELSE <<>>
    IN  [p EXCEPT !.steps =
            IF "workflowData" \in DOMAIN state
                  /\ state.workflowData.report # <<>>
            THEN Append(shown, reportStep)
            ELSE shown]

\* restoreWorkflowState that leaves the stores as they are
restoreWorkflowStateKeepsStores(p, state) ==
    LET p1 == IF hasQueryInput(state)
              THEN [p EXCEPT !.queryInput = state.queryInput] ELSE p
        p2 == IF "selectedTemplate" \in DOMAIN state
                    /\ state.selectedTemplate # <<>>
              THEN [p1 EXCEPT !.selectedTemplate = state.selectedTemplate]
              ELSE p1
        p3 == IF "selectedDocument" \in DOMAIN state
                    /\ state.selectedDocument # <<>>
              THEN [p2 EXCEPT !.selectedDocument = state.selectedDocument]
              ELSE p2
        p4 == IF "workflowData" \in DOMAIN state
              THEN [p3 EXCEPT !.workflowData = state.workflowData] ELSE p3
        p6 == IF hasConversationId(state)
              THEN [p4 EXCEPT !.current = state.conversationId] ELSE p4
        p7 == restoreWorkflowDisplay(p6, state)
    IN  IF hasConversationId(state) /\ hasQueryInput(state)
        THEN [p7 EXCEPT !.reconnectTimers = Append(@, state)]
        ELSE p7

\* restoreWorkflowState(state); the 500 ms timer of the reconnect is armed
\* when the state has a conversation id and a query input
restoreWorkflowState(p, state) ==
    LET p1 == IF hasQueryInput(state)
              THEN [p EXCEPT !.queryInput = state.queryInput] ELSE p
        p2 == IF "selectedTemplate" \in DOMAIN state
                    /\ state.selectedTemplate # <<>>
              THEN [p1 EXCEPT !.selectedTemplate = state.selectedTemplate]
              ELSE p1
        p3 == IF "selectedDocument" \in DOMAIN state
                    /\ state.selectedDocument # <<>>
              THEN [p2 EXCEPT !.selectedDocument = state.selectedDocument]
              ELSE p2
        p4 == IF "workflowData" \in DOMAIN state
              THEN [p3 EXCEPT !.workflowData = state.workflowData] ELSE p3
        p5 == clearWorkflowStorage(p4)
        p6 == IF hasConversationId(state)
              THEN [p5 EXCEPT !.current = state.conversationId] ELSE p5
        p7 == restoreWorkflowDisplay(p6, state)
    IN  IF hasConversationId(state) /\ hasQueryInput(state)
        THEN [p7 EXCEPT !.reconnectTimers = Append(@, state)]
        ELSE p7

\* the page after the App constructor ran in a tab: a fresh App over the
\* stored sessions; sessionStorage survives a reload, a new tab starts
\* with an empty one
constructed(p, convs, newTab) ==
    [queryInput |-> "", selectedTemplate |-> <<>>, selectedDocument |-> <<>>,
     workflowData |-> emptyWorkflow, isProcessing |-> FALSE,
     \* restoreLastConversation
     current |-> IF convs # <<>> THEN listConversations(convs)[1].id
                 ELSE Null,
     steps |-> <<>>,
     sessionStore |-> IF newTab THEN <<>> ELSE p.sessionStore,
     localStore |-> p.localStore, restoreTimers |-> <<>>,
     reconnectTimers |-> <<>>, checked |-> <<>>]

\* the world after the page was unloaded and loaded again: the browser
\* closed the EventSources and dropped the timers
unloaded(w) ==
    [sse |-> SSEClientInit,
     es |-> [k \in 1..Len(w.es) |-> [w.es[k] EXCEPT !.readyState = "closed"]],
     timers |-> <<>>, isProcessing |-> FALSE, errorHandled |-> FALSE,
     out |-> <<>>]

StorePage(p) ==
    /\ queryInput' = p.queryInput
    /\ selectedTemplate' = p.selectedTemplate
    /\ selectedDocument' = p.selectedDocument
    /\ workflowData' = p.workflowData
    /\ currentConversationId' = p.current
    /\ steps' = p.steps
    /\ sessionStore' = p.sessionStore
    /\ localStore' = p.localStore
    /\ restoreTimers' = p.restoreTimers
    /\ reconnectTimers' = p.reconnectTimers
    /\ checked' = p.checked

\* what no step of the snapshot flow changes
keptVars ==
    <<pendingRestore, conversations, now, deletedItem, undoToast, undoTimeout,
      deleting, appended, reports, deletedEntry, used, backend, op, query,
      posts>>

\* the confirmation round trip, which the snapshot flow leaves alone
roundTripVars ==
    <<hasUserConfirmed, userConfirmationResult, confirmationModal,
      confirmationResolve, awaiting, received>>

\* the user types the query q
TypeQuery(q) ==
    /\ queryInput # q
    /\ queryInput' = q
    /\ Observe(World, "page")
    /\ UNCHANGED <<currentConversationId, workflowData, steps,
                   currentTemplateId, selectedTemplate, selectedDocument,
                   sessionStore, localStore, restoreTimers, reconnectTimers,
                   checked, resumed, snapUsed, keptVars, roundTripVars>>

\* selectTemplate(templateId, templateName)
SelectTemplate(t) ==
    /\ currentTemplateId # t
    /\ currentTemplateId' = t
    /\ Observe(World, "page")
    /\ UNCHANGED <<currentConversationId, workflowData, steps, queryInput,
                   selectedTemplate, selectedDocument, sessionStore,
                   localStore, restoreTimers, reconnectTimers, checked,
                   resumed, snapUsed, keptVars, roundTripVars>>

\* the user submits what the input holds
SubmitTyped(b) ==
    /\ queryInput # ""
    /\ SubmitB(queryInput, b)

\* saveWorkflowState() is called; at most b times
SaveWorkflowStateB(b) ==
    /\ snapUsed.saves < b
    /\ snapUsed' = [snapUsed EXCEPT !.saves = @ + 1]
    /\ StorePage(saveWorkflowState(Page, now))
    /\ Observe(World, "page")
    /\ UNCHANGED <<currentTemplateId, resumed, keptVars, roundTripVars>>

\* something else of the origin (another tab of the application, the user)
\* sets the text of a storage area; at most b times
StorageWriteB(area, text, b) ==
    /\ snapUsed.writes < b
    /\ snapUsed' = [snapUsed EXCEPT !.writes = @ + 1]
    /\ IF area = "sessionStorage"
       THEN sessionStore' = <<text>> /\ UNCHANGED localStore
       ELSE localStore' = <<text>> /\ UNCHANGED sessionStore
    /\ Observe(World, "page")
    /\ UNCHANGED <<currentConversationId, workflowData, steps, queryInput,
                   currentTemplateId, selectedTemplate, selectedDocument,
                   restoreTimers, reconnectTimers, checked, resumed, keptVars,
                   roundTripVars>>

\* visibilitychange with the document visible; at most b times
VisibilityChangeB(b) ==
    /\ snapUsed.checks < b
    /\ snapUsed' = [snapUsed EXCEPT !.checks = @ + 1]
    /\ StorePage(checkAndRestoreInterruptedWorkflow(Page))
    /\ Observe(World, "page")
    /\ UNCHANGED <<currentTemplateId, resumed, keptVars, roundTripVars>>

\* the page is loaded again, in the same tab or in a new one: the App
\* constructor runs and ends with the check; at most b times
ReloadB(newTab, b) ==
    /\ snapUsed.reloads < b
    /\ snapUsed' = [snapUsed EXCEPT !.reloads = @ + 1]
    /\ StorePage(checkAndRestoreInterruptedWorkflow(
           constructed(Page, conversations, newTab)))
    /\ Observe(unloaded(World), "user")
    /\ currentTemplateId' = "general"
    /\ hasUserConfirmed' = FALSE
    /\ userConfirmationResult' = <<>>
    /\ confirmationModal' = FALSE
    /\ confirmationResolve' = Null
    /\ awaiting' = <<>>
    /\ received' = <<>>
    /\ UNCHANGED <<resumed, keptVars>>

\* the oldest 2 s timer of showWorkflowRestoreNotification fires
RestoreTimer ==
    /\ restoreTimers # <<>>
    /\ StorePage(restoreWorkflowState(
           [Page EXCEPT !.restoreTimers = Tail(@)], Head(restoreTimers)))
    /\ Observe(World, "page")
    /\ UNCHANGED <<currentTemplateId, resumed, snapUsed, keptVars,
                   roundTripVars>>

\* the oldest 500 ms timer of restoreWorkflowState fires:
\* reconnectToWorkflow(state); at most b EventSources are created
ReconnectTimerB(b) ==
    /\ reconnectTimers # <<>>
    /\ Len(es) < b
    /\ LET state == Head(reconnectTimers)
       IN  /\ Observe(reconnectToWorkflow(World), "user")
           /\ resumed' = Append(resumed,
                                [query |-> state.queryInput,
                                 conversationId |-> state.conversationId])
    /\ reconnectTimers' = Tail(reconnectTimers)
    /\ UNCHANGED <<currentConversationId, workflowData, steps, queryInput,
                   currentTemplateId, selectedTemplate, selectedDocument,
                   sessionStore, localStore, restoreTimers, checked, snapUsed,
                   keptVars, roundTripVars>>

MaxSaves == 2
MaxChecks == 1
MaxReloads == 1
MaxWrites == 1
MaxSnapshotTransports == 2
MaxSnapshotEvents == 1

\* texts that do not come from saveWorkflowState of this page: one that does
\* not parse, an object without query and flag, the snapshot of a tab that
\* was interrupted with a query in its input
corruptText == [parses |-> FALSE]
invalidText == [parses |-> TRUE, value |-> [timestamp |-> 1]]
otherTabText ==
    stringify([queryInput |-> "quarterly plan", selectedTemplate |-> <<>>,
               selectedDocument |-> <<>>, workflowData |-> emptyWorkflow,
               isProcessing |-> FALSE, conversationId |-> Null,
               operationType |-> "generate", workflowSteps |-> <<>>,
               timestamp |-> 1])

NextSnapshot ==
    \/ TypeQuery("weekly report")
    \/ SelectTemplate("meeting")
    \/ SubmitTyped(1)
    \/ \E i \in 1..Len(es) : TransportOpen(i)
    \/ \E i \in 1..Len(es), ev \in {plannerUpdateEvent, endEvent} :
           StreamDataB(i, ev, MaxSnapshotEvents)
    \/ SaveWorkflowStateB(MaxSaves)
    \/ \E area \in {"sessionStorage", "localStorage"},
          text \in {corruptText, invalidText, otherTabText} :
           StorageWriteB(area, text, MaxWrites)
    \/ VisibilityChangeB(MaxChecks)
    \/ \E newTab \in BOOLEAN : ReloadB(newTab, MaxReloads)
    \/ RestoreTimer
    \/ ReconnectTimerB(MaxSnapshotTransports)

SpecSnapshot == InitStore /\ [][NextSnapshot]_vars

TypeOK ==
    /\ sse.eventSource \in 0..Len(es)
    /\ sse.retryCount \in 0..maxRetries
    /\ Len(timers) <= MaxTimers
    /\ term \in {"no", "end", "abort"}
    /\ reconnects \in 0..MaxAttempts

\* ------------------------------------------------------------ claims

\* C1: when the transport errors repeatedly and the stream never opens,
\* at most maxRetries (3) reconnect attempts are made by the retry timer;
\* after them the connection is torn down and nothing more is scheduled.
C1_ReconnectsBounded ==
    ~opened => reconnects <= maxRetries

\* C2: after abort() has been called for an operation, and until the user
\* starts a new operation, no callback fires and no EventSource is created.
C2_NothingAfterAbort ==
    [][(term = "abort" /\ term' = "abort")
         => (~Has(trace', "cb") /\ ~Has(trace', "new"))]_vars

\* C3: once the operation is terminal (its end event was processed or it
\* was aborted), and until the user starts a new operation, no step creates
\* an EventSource, arms a retry timer or invokes onError.
C3_NoReopenAfterTerminal ==
    [][(term # "no" /\ term' # "no")
         => /\ ~Has(trace', "new")
            /\ ~Has(trace', "setTimeout")
            /\ ~HasCb(trace', "onError")]_vars

\* C4: after an error event was delivered to the caller, and until the user
\* starts a new operation, no step creates an EventSource.
C4_NoReconnectAfterErrorEvent ==
    [][(errorDelivered /\ errorDelivered') => ~Has(trace', "new")]_vars

\* C5: within one operation the failure is shown to the user at most once,
\* however many error events arrive.
C5_ErrorSurfacedOnce ==
    errorSteps <= 1

\* C6: a connect made while an EventSource exists closes that EventSource
\* exactly once, before the new one is created; the new one is still
\* connecting (its onOpen has not fired) when connect returns, and no
\* EventSource is ever closed twice.
C6_OldClosedOnceBeforeNew ==
    [][(Has(trace', "new") /\ sse.eventSource # Null)
         => LET old == sse.eventSource
                new == Len(es) + 1
                closeAt == {j \in 1..Len(trace') :
                              trace'[j] = Ev("close", old, "")}
                newAt == {j \in 1..Len(trace') :
                              trace'[j] = Ev("new", new, "")}
            IN  /\ Cardinality(closeAt) = 1
                /\ Cardinality(newAt) = 1
                /\ \A c \in closeAt, n \in newAt : c < n
                /\ es'[old].readyState = "closed"
                /\ es'[new].readyState = "connecting"
                /\ ~HasCb(trace', "onOpen")
                /\ \A i \in 1..Len(es') : es'[i].closes <= 1]_vars

C6_Witness ==
    /\ Len(trace) = 3
    /\ trace[1].kind = "close"
    /\ trace[3].kind = "new"
    /\ es[trace[1].es].closes = 1

\* C7: at most one EventSource is not closed.
C7_AtMostOneOpenStream ==
    Cardinality({i \in 1..Len(es) : es[i].readyState # "closed"}) <= 1

C7_Witness ==
    /\ Len(es) >= 2
    /\ es[Len(es)].readyState = "open"
    /\ \A i \in 1..(Len(es) - 1) : es[i].readyState = "closed"

\* C8 as stated: isAborted and isCompleted never go from true to false.
C8_FlagsMonotonic ==
    [][(sse.isAborted => sse'.isAborted)
         /\ (sse.isCompleted => sse'.isCompleted)]_vars

\* C8 amended: isAborted and isCompleted go from true to false only in a
\* step in which connect creates a new EventSource.
C8_FlagsResetOnlyByConnect ==
    [][((sse.isAborted /\ ~sse'.isAborted)
          \/ (sse.isCompleted /\ ~sse'.isCompleted))
         => Has(trace', "new")]_vars

C8_Witness ==
    /\ errorHandled
    /\ Has(trace, "new")
    /\ ~sse.isAborted
    /\ ~sse.isCompleted

\* the program state of a world, without the record of what a handler did
Prog(w) == [w EXCEPT !.out = <<>>]

\* C9: from every reachable state abort() leaves isAborted, isCompleted
\* true, retryCount = maxRetries and no EventSource open, and a second
\* abort() changes nothing.
C9_AbortIdempotent ==
    LET a == abort(World)
    IN  /\ a.sse.isAborted
        /\ a.sse.isCompleted
        /\ a.sse.retryCount = maxRetries
        /\ a.sse.eventSource = Null
        /\ ~a.sse.isConnected
        /\ \A i \in 1..Len(a.es) : a.es[i].readyState = "closed"
        /\ Prog(abort(a)) = Prog(a)

C9_Witness ==
    /\ term = "abort"
    /\ Has(trace, "abort")
    /\ Has(trace, "close")
    /\ sse.isAborted
    /\ sse.retryCount = maxRetries

\* C10: a step in which a payload fails to parse changes nothing of the
\* SSEClient, the EventSources, the timers or the App and invokes no
\* callback; a well-formed event that arrives after such a failure on the
\* same EventSource is dispatched to its callback.
C10_ParseFailureDropsOneEvent ==
    [][/\ Has(trace', "parseError")
           => /\ Len(trace') = 1
              /\ sse' = sse
              /\ es' = es
              /\ es'[trace'[1].es].readyState = "open"
              /\ timers' = timers
              /\ isProcessing' = isProcessing
              /\ errorHandled' = errorHandled
       /\ (dropped /\ dropped' /\ Has(trace', "event"))
           => LET e == trace'[1]
              IN  /\ e.kind = "event"
                  /\ e.es = Len(es)
                  /\ eventTypeMap[e.name] \in callbacksOf(es[e.es].cb)
                        => /\ Len(trace') >= 2
                           /\ trace'[2] = Ev("cb", e.es, eventTypeMap[e.name])]_vars

C10_Witness ==
    /\ dropped
    /\ Len(trace) >= 2
    /\ trace[1].kind = "event"
    /\ trace[2].kind = "cb"
    /\ es[trace[1].es].readyState = "open"

\* the contents of a list of report versions
contents(versions) == [k \in 1..Len(versions) |-> versions[k].content]

\* C16: after N >= 1 calls of updateReport with non-empty reports on one
\* session, currentReport is the last report supplied and reportVersions
\* holds the min(N - 1, 5) most recent of the previous reports, in the order
\* in which they were replaced; it never holds more than 5.
C16_ReportVersions ==
    \A id \in Keys(conversations) :
        LET c == getConversation(conversations, id)
            r == logOf(reports, id)
            N == Len(r)
        IN  N >= 1 =>
               /\ c.currentReport = r[N]
               /\ contents(c.reportVersions) = lastN(SubSeq(r, 1, N - 1), 5)
               /\ Len(c.reportVersions) = (IF N - 1 < 5 THEN N - 1 ELSE 5)
               /\ Len(c.reportVersions) <= 5

C16_Witness ==
    \E id \in Keys(conversations) :
        /\ Len(logOf(reports, id)) = 7
        /\ op = "updateReport"
        /\ Len(getConversation(conversations, id).reportVersions) = 5
        /\ getConversation(conversations, id).currentReport = reportText(7)
        /\ getConversation(conversations, id).reportVersions[1].content
              = reportText(2)

\* C17: the message list of a session never holds more than 20 messages and
\* is the last min(n, 20) of the n messages appended to it, in order.
C17_MessageWindow ==
    \A id \in Keys(conversations) :
        LET c == getConversation(conversations, id)
            a == logOf(appended, id)
        IN  /\ Len(c.messages) <= 20
            /\ Len(c.messages) = (IF Len(a) < 20 THEN Len(a) ELSE 20)
            /\ c.messages = lastN(a, 20)

C17_Witness ==
    \E id \in Keys(conversations) :
        /\ Len(logOf(appended, id)) = 22
        /\ op = "addMessage"
        /\ Len(getConversation(conversations, id).messages) = 20
        /\ getConversation(conversations, id).messages[1].content = 3
        /\ getConversation(conversations, id).messages[20].content = 22

\* the number of positions of a list that hold the entry e
occurrences(l, e) == Cardinality({k \in 1..Len(l) : l[k] = e})

\* C18: after any sequence of create, addMessage, updateReport, delete and
\* restore, listConversations returns every stored session exactly once,
\* ordered by update timestamp, most recent first.
C18_ListedOnceNewestFirst ==
    LET l == listConversations(conversations)
    IN  /\ Len(l) = Len(conversations)
        /\ \A k \in 1..Len(conversations) :
               occurrences(l, conversations[k]) = 1
        /\ \A j, k \in 1..Len(l) :
               j < k => l[j].updatedAt >= l[k].updatedAt

C18_Witness ==
    /\ op = "undoDelete"
    /\ Len(conversations) >= 2
    /\ conversations[1].updatedAt > conversations[2].updatedAt
    /\ listConversations(conversations)[1] = conversations[1]
    /\ \E k \in 1..Len(conversations) :
           Len(conversations[k].messages) > 0

\* C19: after a history delete followed by undo, the store holds the deleted
\* session again as an entry with the fields id, title, createdAt,
\* updatedAt, messages, currentReport and reportVersions, and with the
\* messages, the report and the versions it had when it was deleted.
C19_UndoRestoresEntry ==
    [][(op' = "undoDelete" /\ deletedEntry # <<>>) =>
          LET old == deletedEntry[1]
          IN  /\ hasKey(conversations', old.id)
              /\ LET c == getConversation(conversations', old.id)
                 IN  /\ DOMAIN c = EntryFields
                     /\ c.messages = old.messages
                     /\ c.currentReport = old.currentReport
                     /\ "reportVersions" \in DOMAIN c
                           => c.reportVersions = old.reportVersions
                     /\ ~updateReportThrows(conversations', old.id)]_vars

\* the end event of the operation has been processed
Ended == \E k \in 1..Len(received) : received[k].type = "end"

\* C11: a stream event that arrives on the connection after the end event
\* of the operation has been processed changes neither the workflow state
\* nor the conversation store.
C11_DroppedAfterEnd ==
    [][(Ended /\ Len(received') = Len(received) + 1)
          => /\ workflowData' = workflowData
             /\ conversations' = conversations
             /\ currentConversationId' = currentConversationId
             /\ isProcessing' = isProcessing]_vars

\* the events of the scenario of C12, in order
ScenarioOfC12 ==
    <<plannerUpdateEvent, searchResultEvent, searchResultEvent,
      verificationFeedbackEvent, finalReportEvent, endEvent>>

\* C12: after a generate operation started from an empty store with the
\* query "weekly report" has received planner_update (3 steps), two
\* search_result, verification_feedback {is_valid: true}, final_report
\* {content: "# Report"} and end, isProcessing is false, isCompleted is true,
\* the report of the session is "# Report" and the store holds exactly one
\* session, titled "weekly report".
C12_ScenarioCompletes ==
    (query = "weekly report" /\ received = ScenarioOfC12) =>
        /\ ~isProcessing
        /\ sse.isCompleted
        /\ Len(conversations) = 1
        /\ conversations[1].title = "weekly report"
        /\ conversations[1].currentReport = "# Report"
        /\ conversations[1].id = currentConversationId

C12_Witness ==
    /\ query = "weekly report"
    /\ received = ScenarioOfC12
    /\ Len(plannerUpdateEvent.plan.items) = 3
    /\ HasCb(trace, "end")
    /\ conversations[1].currentReport = "# Report"

\* a decision with confirmed = false was posted
Declined == \E k \in 1..Len(posts) : ~posts[k].confirmed

\* C13: when the user declines a pending confirmation of a generate
\* operation, a request with confirmed = false and the current conversation
\* id is posted to /api/confirm; a final_report that arrives afterwards is
\* committed to the store as the current report of the session.
C13_DeclineForwardedReportAccepted ==
    [][/\ (confirmationResolve # Null
             /\ trace' = <<Ev("handleConfirmation", 0, "false")>>)
          => /\ Len(posts') > Len(posts)
             /\ SubSeq(posts', 1, Len(posts)) = posts
             /\ \A k \in (Len(posts) + 1)..Len(posts') :
                    posts'[k] = [confirmed |-> FALSE,
                                 conversation_id |-> currentConversationId]
             /\ hasKey(conversations, currentConversationId)
       /\ (Declined /\ Len(received') = Len(received) + 1
             /\ received'[Len(received')] = finalReportEvent)
          => /\ hasKey(conversations', currentConversationId')
             /\ getConversation(conversations', currentConversationId')
                   .currentReport = "# Report"]_vars

C13_Witness ==
    /\ Declined
    /\ posts[1].conversation_id = currentConversationId
    /\ Len(received) >= 2
    /\ received[Len(received)] = finalReportEvent
    /\ \E k \in 1..(Len(received) - 1) : received[k] = confirmationEvent
    /\ HasCb(trace, "finalReport")
    /\ getConversation(conversations, currentConversationId).currentReport
          = "# Report"

\* C14: while a confirmation is pending, no other stream event is
\* processed: an event that arrives before the decision was forwarded
\* changes nothing of the workflow, the store or the operation.
C14_NothingProcessedWhilePending ==
    [][(confirmationResolve # Null /\ Len(received') = Len(received) + 1
          /\ received'[Len(received')] # confirmationEvent)
          => /\ workflowData' = workflowData
             /\ conversations' = conversations
             /\ currentConversationId' = currentConversationId
             /\ isProcessing' = isProcessing
             /\ sse' = sse]_vars

\* C15: at most one confirmation is outstanding: every callback that waits
\* for a decision waits for the promise the user's answer will resolve.
C15_OneConfirmationOutstanding ==
    /\ Len(awaiting) <= 1
    /\ \A k \in 1..Len(awaiting) : awaiting[k] = confirmationResolve

\* C20: a start event whose conversation_id differs from the client's id
\* re-keys the entry: afterwards there is no entry under the old id and one
\* entry under the server id, with the same title, messages and reports and
\* with the server id as its id; currentConversationId is the server id.
C20_RekeyWithoutClone ==
    [][(/\ Len(received') = Len(received) + 1
        /\ received'[Len(received')].type = "start"
        /\ hasKey(conversations, currentConversationId)
        /\ received'[Len(received')].conversation_id # currentConversationId)
          => LET old == getConversation(conversations, currentConversationId)
                 new == received'[Len(received')].conversation_id
             IN  /\ ~hasKey(conversations', currentConversationId)
                 /\ Cardinality({k \in 1..Len(conversations') :
                                    conversations'[k].id = new}) = 1
                 /\ Len(conversations') = Len(conversations)
                 /\ getConversation(conversations', new)
                       = [old EXCEPT !.id = new]
                 /\ currentConversationId' = new]_vars

C20_Witness ==
    /\ HasCb(trace, "start")
    /\ currentConversationId = ServerId
    /\ Len(conversations) = 1
    /\ conversations[1].id = ServerId
    /\ conversations[1].title = "weekly report"
    /\ conversations[1].currentReport = "# Report"
    /\ Len(conversations[1].messages) = 1
    /\ received[Len(received)] = startEvent
    /\ \A k \in 1..(Len(received) - 1) : received[k] # startEvent

\* C28: from every reachable state disconnect() closes and clears the
\* EventSource and sets isConnected to false, and leaves isAborted,
\* isCompleted, errorHandled, retryCount, the other EventSources, the timers
\* and the App alone; without an EventSource it changes nothing.
C28_DisconnectFrame ==
    LET d == disconnect(World)
        i == sse.eventSource
    IN  /\ d.sse.isAborted = sse.isAborted
        /\ d.sse.isCompleted = sse.isCompleted
        /\ d.sse.errorHandled = sse.errorHandled
        /\ d.sse.retryCount = sse.retryCount
        /\ d.timers = timers
        /\ d.isProcessing = isProcessing
        /\ d.errorHandled = errorHandled
        /\ i # Null =>
              /\ d.sse.eventSource = Null
              /\ ~d.sse.isConnected
              /\ d.es[i].readyState = "closed"
              /\ \A j \in 1..Len(es) : j # i => d.es[j] = es[j]
        /\ i = Null => Prog(d) = Prog(World)

C28_Witness ==
    /\ Has(trace, "close")
    /\ ~Has(trace, "abort")
    /\ sse.eventSource = Null
    /\ ~sse.isConnected
    /\ sse.isCompleted
    /\ ~sse.isAborted
    /\ \E j \in 1..Len(es) : es[j].readyState = "closed" /\ es[j].closes = 1

\* C25 (refuted as stated): when the undo window of a confirmed deletion
\* elapses without an undo, a DELETE for the deleted session has been sent
\* to the backend.
C25_DeleteSentAfterConfirm ==
    [][(op' = "undoExpired" /\ deletedItem # <<>>)
        => \E k \in 1..Len(backend') :
              /\ backend'[k].method = "DELETE"
              /\ backend'[k].id = deletedItem[1].id]_vars

\* C27 (refuted as stated): the conversation store never holds more than
\* maxHistory sessions.
C27_StoreBounded == Len(conversations) <= maxHistory

\* a planner_update event without a non-empty list as its plan
malformedPlan(ev) ==
    /\ ev.type = "planner_update"
    /\ \/ "plan" \notin DOMAIN ev
       \/ ~ev.plan.isArray
       \/ ev.plan.items = <<>>

\* C30 (refuted as stated): a planner_update event whose plan is missing, not
\* a list or an empty list changes neither the recorded plan nor the steps
\* on display.
C30_MalformedPlanDropped ==
    [][(Len(received') = Len(received) + 1
        /\ malformedPlan(received'[Len(received')]))
       => (workflowData'.planner = workflowData.planner /\ steps' = steps)]_vars

\* the counts the retry steps on display show, in the order of the steps
retryCounts ==
    LET isRetry(x) == x.title = "replanning"
        shown == SelectSeq(steps, isRetry)
        countOf(c) == CHOOSE n \in 0..(MaxRetryCount + 1) :
                          c = "retry " \o ToString(n)
    IN  [k \in 1..Len(shown) |-> countOf(shown[k].content)]

\* C26 (refuted as stated): the retry counts recorded from the retry_trigger
\* events of a session never decrease.
C26_RetryCountMonotonic ==
    \A j, k \in 1..Len(retryCounts) :
        j < k => retryCounts[j] <= retryCounts[k]

\* the page can be saved: saveWorkflowState would write a snapshot
savable == isProcessing \/ queryInput # ""

\* the page after saveWorkflowState, a reload of the tab and
\* restoreWorkflowState of the snapshot the reload finds
roundTrip ==
    LET saved == saveWorkflowState(Page, now)
        loaded == checkAndRestoreInterruptedWorkflow(
                      constructed(saved, conversations, FALSE))
    IN  restoreWorkflowState([loaded EXCEPT !.restoreTimers = <<>>],
                             loaded.restoreTimers[1])

\* C21 (refuted as stated): saving the page and restoring the snapshot after
\* a reload gives back the text of the query input and the steps on display
\* (icon, title, content and stage class of every step, in order).
C21_SaveRestoreRoundTrip ==
    savable => (roundTrip.queryInput = queryInput /\ roundTrip.steps = steps)

\* a step in which the oldest notification timer fired
restoreStep ==
    /\ restoreTimers # <<>>
    /\ restoreTimers' = Tail(restoreTimers)
    /\ snapUsed' = snapUsed

\* a step that ran checkAndRestoreInterruptedWorkflow
checkStep ==
    \/ snapUsed'.checks # snapUsed.checks
    \/ snapUsed'.reloads # snapUsed.reloads

\* C22: the step in which restoreWorkflowState consumes a snapshot leaves
\* both stores empty; a check that finds both stores empty arms no
\* notification timer; and empty stores get a text only by a new save or by
\* a write from outside the page.
C22_ConsumedSnapshotNotOfferedAgain ==
    [][/\ restoreStep => (sessionStore' = <<>> /\ localStore' = <<>>)
       /\ (checkStep /\ sessionStore = <<>> /\ localStore = <<>>)
             => /\ Len(restoreTimers') <= Len(restoreTimers)
                /\ checked'[1].did = "none"
       /\ (sessionStore = <<>> /\ localStore = <<>>
             /\ (sessionStore' # <<>> \/ localStore' # <<>>))
             => \/ snapUsed'.saves # snapUsed.saves
                \/ snapUsed'.writes # snapUsed.writes]_vars

C22_Witness ==
    /\ queryInput = "quarterly plan"
    /\ snapUsed.reloads = 1
    /\ snapUsed.checks = 1
    /\ snapUsed.saves = 0
    /\ checked = <<[source |-> "localStorage", did |-> "none"]>>
    /\ restoreTimers = <<>>
    /\ sessionStore = <<>>
    /\ localStore = <<>>

\* the text is not a usable snapshot: it does not parse, or the object has
\* neither a non-empty query input nor the processing flag
unusable(text) ==
    \/ ~text.parses
    \/ (~hasQueryInput(text.value) /\ ~hasIsProcessing(text.value))

\* C23: the check reads the per-tab store, and the per-origin backup only
\* when the per-tab store is empty; what it surfaces is the object of the
\* text it read; a text that does not parse or that has neither a non-empty
\* query nor the processing flag arms no notification and both stores are
\* cleared.
C23_CheckReadsAndDiscards ==
    LET c == checkAndRestoreInterruptedWorkflow(Page)
        read == IF sessionStore # <<>> THEN sessionStore ELSE localStore
    IN  /\ c.checked[1].source =
               (IF sessionStore # <<>> THEN "sessionStorage"
                ELSE "localStorage")
        /\ read = <<>> => (c.restoreTimers = restoreTimers
                            /\ c.sessionStore = sessionStore
                            /\ c.localStore = localStore)
        /\ (read # <<>> /\ unusable(read[1]))
              => /\ c.restoreTimers = restoreTimers
                 /\ c.sessionStore = <<>>
                 /\ c.localStore = <<>>
        /\ (read # <<>> /\ ~unusable(read[1]))
              => /\ c.restoreTimers = Append(restoreTimers, read[1].value)
                 /\ c.sessionStore = sessionStore
                 /\ c.localStore = localStore

C23_Witness ==
    /\ checked # <<>>
    /\ checked[1].source = "localStorage"
    /\ checked[1].did \in {"threw", "invalid"}
    /\ snapUsed.writes = 1
    /\ snapUsed.saves = 0
    /\ restoreTimers = <<>>
    /\ sessionStore = <<>>
    /\ localStore = <<>>

\* C24 (refuted as stated): when the snapshot of an operation in flight is
\* restored, the reconnect is armed with the conversation id of the snapshot
\* and the query of the interrupted operation.
C24_InFlightSnapshotResumes ==
    [][(restoreStep /\ hasIsProcessing(Head(restoreTimers)))
         => /\ reconnectTimers' # <<>>
            /\ LET state == reconnectTimers'[Len(reconnectTimers')]
               IN  /\ state.conversationId = Head(restoreTimers).conversationId
                   /\ state.queryInput = query]_vars

C31_SearchesHaveQuery ==
    \A k \in 1..Len(workflowData.searches) :
        /\ "query" \in DOMAIN workflowData.searches[k]
        /\ workflowData.searches[k].query # ""

\* q is a prefix of r
isPrefix(q, r) == Len(q) <= Len(r) /\ SubSeq(r, 1, Len(q)) = q

\* C32 (refuted as stated): while the events of one session are processed,
\* the search log and the verification log only grow: the log before a step
\* is a prefix of the log after it, also for the step of final_report.
C32_LogsAppendOnly ==
    [][Len(received') = Len(received) + 1
         => /\ isPrefix(workflowData.searches, workflowData'.searches)
            /\ isPrefix(workflowData.verifications,
                        workflowData'.verifications)]_vars

\* C33 (refuted as stated): when a retry timer fires while the connection of
\* the client belongs to an operation of another kind than the one that
\* armed the timer, the connection stays and stays open.
C33_RetryTimerKeepsNewerConnection ==
    [][(/\ timers # <<>>
        /\ timers' = Tail(timers)
        /\ sse.eventSource # Null
        /\ es[sse.eventSource].cb # Head(timers))
       => /\ sse'.eventSource = sse.eventSource
          /\ es'[sse.eventSource].readyState = es[sse.eventSource].readyState]_vars

\* C37 (refuted as stated): the first error event of a follow_up, modify or
\* supplement operation is shown to the user, aborts the connection and
\* ends processing.
C37_ChatErrorSurfaced ==
    [][(/\ ~errorDelivered
        /\ \E j \in 1..Len(trace') :
              /\ trace'[j].kind = "cb"
              /\ trace'[j].name = "error"
              /\ es[trace'[j].es].cb = "chat")
       => /\ Has(trace', "addErrorStep")
          /\ Has(trace', "abort")
          /\ ~isProcessing']_vars


\* C40 (refuted as stated): the step in which the transport retries of an
\* operation are exhausted (onerror finds retryCount at maxRetries and
\* disconnects) sets isProcessing to false.
C40_ExhaustedRetriesEndProcessing ==
    [][(/\ sse.retryCount >= maxRetries
        /\ ~sse.isAborted
        /\ ~sse.isCompleted
        /\ Has(trace', "close")
        /\ ~Has(trace', "new"))
       => ~isProcessing']_vars

\* C34 (refuted as stated): the step in which the user answers a pending
\* confirmation request posts the decision to /api/confirm exactly once.
C34_DecisionPostedOnce ==
    [][(/\ confirmationResolve # Null
        /\ Len(trace') = 1
        /\ trace'[1].kind = "handleConfirmation")
       => Len(posts') = Len(posts) + 1]_vars

\* C38 (refuted as stated): when restoreWorkflowState runs for a snapshot,
\* no other notification timer is pending for the same snapshot, so the
\* snapshot is not restored a second time.
C38_SnapshotRestoredOnce ==
    [][(restoreStep /\ snapUsed.saves <= 1)
         => \A k \in 2..Len(restoreTimers) :
                restoreTimers[k] # Head(restoreTimers)]_vars

MaxCurrentEvents == 2

NextCurrent ==
    \/ SubmitB("weekly report", 1)
    \/ \E i \in 1..Len(es) : TransportOpen(i)
    \/ \E i \in 1..Len(es), ev \in SessionEvents :
           StreamDataB(i, ev, MaxCurrentEvents)
    \/ \E id \in Keys(conversations) : DeleteConversationB(id, MaxDeletes)
    \/ \E id \in Keys(conversations) : ConfirmDeleteB(id, MaxDeletes)
    \/ ConfirmDeleteResume
    \/ UndoDelete
    \/ UndoExpire

SpecCurrent == InitStore /\ [][NextCurrent]_vars

\* C35 (refuted as stated): currentConversationId is null or the key of a
\* session present in the store.  No delete path resets the current id:
\* after the current session is deleted, the id names no session and a
\* follow_up operation is started for it.
C35_CurrentIsStored ==
    currentConversationId = Null \/ hasKey(conversations, currentConversationId)

\* C36 (refuted as stated): every call of createConversation adds a new key.
\* The key is the clock value, so a second call within the same millisecond
\* replaces the session of the first.
C36_CreateAddsKey ==
    [][op' = "createConversation"
       => Len(conversations') = Len(conversations) + 1]_vars

====
